---- MODULE Spec2Model ----
(***************************************************************************)
(* A model of budget_bot (src/main.py): a Telegram bot keeping per-user    *)
(* monthly budgets and expenses in three MongoDB collections.              *)
(*                                                                         *)
(* Conventions.                                                            *)
(*  - Text is a tuple of one-character strings, so that parsing and        *)
(*    formatting are computed, e.g. "2024-02" is <<"2","0","2","4","-",    *)
(*    "0","2">>.                                                           *)
(*  - A datetime is [y, m, d]: the clock has the granularity of one day.   *)
(*    Both bounds of every range query are midnights, so comparing dates   *)
(*    decides ts >= start and ts < end exactly as comparing datetimes.     *)
(*  - A float amount is an integer number of hundredths.  The inputs of    *)
(*    the model carry at most two decimals, so sums and "{:.2f}" are exact.*)
(*  - A collection is the sequence of its documents in insertion order     *)
(*    (the store's natural order).                                         *)
(***************************************************************************)
EXTENDS Integers, Sequences, FiniteSets, TLC

(* ----------------------------- bounds ---------------------------------- *)

\* Days the clock may advance past Epoch.
MaxTicks == 1

\* Documents the three collections may hold together.
MaxDocs == 3

\* CSV files a failed send may leave behind.
MaxLeakedFiles == 1

(* ------------------------------ text ----------------------------------- *)

Digits == <<"0", "1", "2", "3", "4", "5", "6", "7", "8", "9">>

IsDigit(c) == \E i \in 1..10 : Digits[i] = c

DigitVal(c) == (CHOOSE i \in 1..10 : Digits[i] = c) - 1

AllDigits(s) == \A i \in 1..Len(s) : IsDigit(s[i])

\* The value of a non-empty string of decimal digits.
RECURSIVE DecVal(_)
DecVal(s) ==
    IF Len(s) = 0 THEN 0
    ELSE 10 * DecVal(SubSeq(s, 1, Len(s) - 1)) + DigitVal(s[Len(s)])

\* str.strip(): leading and trailing blanks removed.
RECURSIVE LStrip(_)
LStrip(s) == IF Len(s) > 0 /\ s[1] = " " THEN LStrip(Tail(s)) ELSE s

RECURSIVE RStrip(_)
RStrip(s) ==
    IF Len(s) > 0 /\ s[Len(s)] = " " THEN RStrip(SubSeq(s, 1, Len(s) - 1)) ELSE s

Strip(s) == LStrip(RStrip(s))

\* Index of the first occurrence of c in s, 0 if there is none.
RECURSIVE IndexOf(_, _)
IndexOf(s, c) ==
    IF Len(s) = 0 THEN 0
    ELSE IF s[1] = c THEN 1
    ELSE LET r == IndexOf(Tail(s), c) IN IF r = 0 THEN 0 ELSE r + 1

\* str.split(sep, maxsplit): at most maxsplit cuts, from the left.
RECURSIVE Split(_, _, _)
Split(s, sep, maxsplit) ==
    LET i == IndexOf(s, sep) IN
    IF maxsplit = 0 \/ i = 0 THEN <<s>>
    ELSE <<SubSeq(s, 1, i - 1)>> \o Split(SubSeq(s, i + 1, Len(s)), sep, maxsplit - 1)

\* str.split(sep) without a limit: no string of the model has more separators
\* than characters.
SplitAll(s, sep) == Split(s, sep, Len(s))

\* A float(s) that yields 0.0 where float raises ValueError.
ParseFloatOrZero(s) == [ok |-> TRUE, val |-> 0]

\* float(s), for the decimal forms [sign] digits [. digits] and [sign] . digits
\* after stripping blanks; the exponent, inf/nan and underscore forms need
\* characters that no input of the model holds.  ok = FALSE is ValueError.
ParseFloat(s) ==
    LET t    == Strip(s)
        neg  == Len(t) > 0 /\ t[1] = "-"
        u    == IF Len(t) > 0 /\ t[1] \in {"-", "+"} THEN Tail(t) ELSE t
        dot  == IndexOf(u, ".")
        ip   == IF dot = 0 THEN u ELSE SubSeq(u, 1, dot - 1)
        fp   == IF dot = 0 THEN <<>> ELSE SubSeq(u, dot + 1, Len(u))
        good == /\ AllDigits(ip) /\ AllDigits(fp)
                /\ Len(ip) + Len(fp) > 0
        f2   == IF Len(fp) = 0 THEN 0
                ELSE IF Len(fp) = 1 THEN 10 * DigitVal(fp[1])
                ELSE 10 * DigitVal(fp[1]) + DigitVal(fp[2])
        mag  == 100 * DecVal(ip) + f2
    IN  IF good THEN [ok |-> TRUE, val |-> IF neg THEN 0 - mag ELSE mag]
        ELSE [ok |-> FALSE, val |-> 0]

(* ------------------------------ dates ---------------------------------- *)

IsLeap(y) == (y % 4 = 0 /\ y % 100 # 0) \/ y % 400 = 0

\* calendar.monthrange(year, month)[1]
DaysInMonth(y, m) ==
    IF m = 2 THEN (IF IsLeap(y) THEN 29 ELSE 28)
    ELSE IF m \in {4, 6, 9, 11} THEN 30 ELSE 31

Date(y, m, d) == [y |-> y, m |-> m, d |-> d]

\* datetime comparison
DateLT(a, b) ==
    \/ a.y < b.y
    \/ a.y = b.y /\ a.m < b.m
    \/ a.y = b.y /\ a.m = b.m /\ a.d < b.d

DateLE(a, b) == a = b \/ DateLT(a, b)

NextDay(t) ==
    IF t.d < DaysInMonth(t.y, t.m) THEN Date(t.y, t.m, t.d + 1)
    ELSE IF t.m < 12 THEN Date(t.y, t.m + 1, 1)
    ELSE Date(t.y + 1, 1, 1)

\* The wall clock when the bot starts: the last day of a leap February.
Epoch == Date(2024, 2, 29)

RECURSIVE DateAfter(_, _)
DateAfter(t, n) == IF n = 0 THEN t ELSE DateAfter(NextDay(t), n - 1)

\* A number written in at least `width` decimal digits, zero padded.
RECURSIVE Pad(_, _)
Pad(n, width) ==
    IF width <= 1 /\ n < 10 THEN <<Digits[n + 1]>>
    ELSE Pad(n \div 10, width - 1) \o <<Digits[(n % 10) + 1]>>

\* date.strftime("%Y-%m")
get_month_str(date) == Pad(date.y, 4) \o <<"-">> \o Pad(date.m, 2)

\* date.strftime("%Y-%m-%d")
FormatDay(date) == get_month_str(date) \o <<"-">> \o Pad(date.d, 2)

\* The month field "%m" of strptime: 1[0-2] | 0[1-9] | [1-9], the whole rest
\* of the string (anything left over is "unconverted data remains").
StrptimeMonth(s) ==
    \/ Len(s) = 2 /\ s[1] = "1" /\ s[2] \in {"0", "1", "2"}
    \/ Len(s) = 2 /\ s[1] = "0" /\ IsDigit(s[2]) /\ s[2] # "0"
    \/ Len(s) = 1 /\ IsDigit(s[1]) /\ s[1] # "0"

\* datetime.strptime(s, "%Y-%m") does not raise ValueError: four digits of a
\* year >= 1 (datetime.MINYEAR), a dash, a month.
StrptimeOk(s) ==
    /\ Len(s) >= 6
    /\ AllDigits(SubSeq(s, 1, 4))
    /\ DecVal(SubSeq(s, 1, 4)) >= 1
    /\ s[5] = "-"
    /\ StrptimeMonth(SubSeq(s, 6, Len(s)))

\* get_month_range: (first_day, last_day), both datetimes at midnight.
get_month_range(month_str) ==
    LET parts == SplitAll(month_str, "-")
        year  == DecVal(parts[1])
        month == DecVal(parts[2])
    IN  [first_day |-> Date(year, month, 1),
         last_day  |-> Date(year, month, DaysInMonth(year, month))]

(* ------------------------------ store ---------------------------------- *)

\* The Telegram users of the model: update.effective_user.  An empty username
\* is None.
EffectiveUsers ==
    { [id |-> 1, username |-> <<"z", "a", "c">>],
      [id |-> 2, username |-> <<>>] }

Uids == {u.id : u \in EffectiveUsers}

\* update.effective_user.username or f"user_{user_id}"
UsernameOf(user) ==
    IF Len(user.username) > 0 THEN user.username
    ELSE <<"u", "s", "e", "r", "_">> \o Pad(user.id, 1)

\* {}: the placeholder /start stores as the budget of a new user.
EmptyDoc == [empty |-> TRUE]

\* client["budgetbot"] with its collections users, budgets, expenses, empty.
EmptyDb == [users |-> <<>>, budgets |-> <<>>, expenses |-> <<>>]

DocCount(db) == Len(db.users) + Len(db.budgets) + Len(db.expenses)

\* Index of the first user document with {"uid": user_id}, 0 if none.
UserIndex(coll, user_id) ==
    IF \E i \in 1..Len(coll) : coll[i].uid = user_id
    THEN CHOOSE i \in 1..Len(coll) :
            coll[i].uid = user_id /\ \A j \in 1..(i - 1) : coll[j].uid # user_id
    ELSE 0

\* The filter {"month": month}, which forgets the user.
BudgetMatchesMonthOnly(doc, user_id, month) == doc.month = month

\* The filter {"uid": user_id} in the place of the two-key filter.
BudgetMatchesUidOnly(doc, user_id, month) == doc.uid = user_id

\* The filter {"uid": user_id, "month": month} of budgets.
BudgetMatches(doc, user_id, month) == doc.uid = user_id /\ doc.month = month

\* Index of the first budget document matching the filter, 0 if none.
BudgetIndex(coll, user_id, month) ==
    IF \E i \in 1..Len(coll) : BudgetMatches(coll[i], user_id, month)
    THEN CHOOSE i \in 1..Len(coll) :
            /\ BudgetMatches(coll[i], user_id, month)
            /\ \A j \in 1..(i - 1) : ~BudgetMatches(coll[j], user_id, month)
    ELSE 0

RECURSIVE SumAmounts(_)
SumAmounts(docs) ==
    IF Len(docs) = 0 THEN 0 ELSE docs[1].amount + SumAmounts(Tail(docs))

\* The filter {"uid": user_id, "timestamp": {"$gte": start, "$lt": end}}.
InRange(doc, user_id, start, end) ==
    /\ doc.uid = user_id
    /\ DateLE(start, doc.timestamp)
    /\ DateLT(doc.timestamp, end)

\* expenses.find(filter), in natural order.
FindExpenses(db, user_id, start, end) ==
    SelectSeq(db.expenses, LAMBDA doc : InRange(doc, user_id, start, end))

Reply(kind, data) == [kind |-> kind, data |-> data]

\* What one handler invocation did: the store after it and the replies it
\* asked the transport to send, in order.
Outcome(db, replies) == [db |-> db, replies |-> replies]

(* ----------------------------- handlers --------------------------------- *)

\* /start without the find_one check: the placeholder record is inserted on
\* every call.
start_without_check(db, user) ==
    Outcome(
      [db EXCEPT !.users = Append(@, [uid      |-> user.id,
                                      username |-> UsernameOf(user),
                                      budget   |-> EmptyDoc,
                                      expenses |-> <<>>])],
      <<Reply("welcome_new", <<UsernameOf(user)>>)>>)

\* /start
start(db, user) ==
    LET user_id  == user.id
        username == UsernameOf(user)
    IN  IF UserIndex(db.users, user_id) = 0
        THEN Outcome(
               [db EXCEPT !.users = Append(@, [uid      |-> user_id,
                                               username |-> username,
                                               budget   |-> EmptyDoc,
                                               expenses |-> <<>>])],
               <<Reply("welcome_new", <<username>>)>>)
        ELSE Outcome(db, <<Reply("welcome_back", <<username>>)>>)

\* budgets.insert_one(budget_doc) in the place of the upsert.
InsertBudget(coll, budget_doc) == Append(coll, budget_doc)

\* budgets.update_one({"uid": user_id, "month": month}, {"$set": budget_doc},
\* upsert=True)
UpsertBudget(coll, budget_doc) ==
    LET i == BudgetIndex(coll, budget_doc.uid, budget_doc.month) IN
    IF i = 0 THEN Append(coll, budget_doc) ELSE [coll EXCEPT ![i] = budget_doc]

\* users.update_one({"uid": user_id}, {"$set": {"budget": budget_doc}})
SetUserBudget(coll, user_id, budget_doc) ==
    LET i == UserIndex(coll, user_id) IN
    IF i = 0 THEN coll ELSE [coll EXCEPT ![i].budget = budget_doc]

\* users.update_one({"uid": user_id}, {"$push": {"expenses": summary}})
PushUserExpense(coll, user_id, summary) ==
    LET i == UserIndex(coll, user_id) IN
    IF i = 0 THEN coll ELSE [coll EXCEPT ![i].expenses = Append(@, summary)]

\* /setbudget <amount>; args is context.args, now is datetime.utcnow().
set_budget(db, user, args, now) ==
    LET amount == IF Len(args) = 0 THEN [ok |-> FALSE, val |-> 0]
                  ELSE ParseFloat(args[1])
    IN  IF ~amount.ok
        THEN Outcome(db, <<Reply("usage_setbudget", <<>>)>>)
        ELSE
          LET user_id    == user.id
              month      == get_month_str(now)
              budget_doc == [uid        |-> user_id,
                             username   |-> UsernameOf(user),
                             month      |-> month,
                             budget     |-> amount.val,
                             created_at |-> now]
          IN  Outcome(
                [db EXCEPT !.budgets = UpsertBudget(@, budget_doc),
                           !.users   = SetUserBudget(@, user_id, budget_doc)],
                <<Reply("budget_set", <<month, amount.val>>)>>)

\* expenses.replace_one({"uid": ...}, expense_doc, upsert=True) in the place of
\* the insert: the user's first Expense is overwritten.
ReplaceExpense(coll, expense_doc) ==
    IF \E i \in 1..Len(coll) : coll[i].uid = expense_doc.uid
    THEN LET i == CHOOSE k \in 1..Len(coll) : coll[k].uid = expense_doc.uid
         IN  [coll EXCEPT ![i] = expense_doc]
    ELSE Append(coll, expense_doc)

\* expenses.insert_one(expense_doc)
InsertExpense(coll, expense_doc) == Append(coll, expense_doc)

\* /add <amount>, <name>, <category>; text is update.message.text[len("/add"):].
add_expense(db, user, text, now) ==
    LET parts  == Split(Strip(text), ",", 2)
        amount == IF Len(parts) # 3 THEN [ok |-> FALSE, val |-> 0]
                  ELSE ParseFloat(Strip(parts[1]))
    IN  IF ~amount.ok
        THEN Outcome(db, <<Reply("usage_add", <<>>)>>)
        ELSE
          LET user_id     == user.id
              name        == Strip(parts[2])
              category    == Strip(parts[3])
              expense_doc == [_id       |-> Len(db.expenses) + 1,
                              uid       |-> user_id,
                              username  |-> UsernameOf(user),
                              amount    |-> amount.val,
                              name      |-> name,
                              category  |-> category,
                              timestamp |-> now]
              summary     == [amount    |-> amount.val,
                              name      |-> name,
                              category  |-> category,
                              timestamp |-> now]
          IN  Outcome(
                [db EXCEPT !.expenses = InsertExpense(@, expense_doc),
                           !.users    = PushUserExpense(@, user_id, summary)],
                <<Reply("expense_added", <<amount.val, name, category>>)>>)

\* /balance with a $match on the timestamp alone: the expenses of every user
\* are summed.
balance_all_users(db, user, now) ==
    LET month == get_month_str(now)
        i     == BudgetIndex(db.budgets, user.id, month)
        range == get_month_range(month)
        matched == SelectSeq(db.expenses,
                             LAMBDA doc : /\ DateLE(range.first_day, doc.timestamp)
                                          /\ DateLT(doc.timestamp, range.last_day))
    IN  IF i = 0
        THEN Outcome(db, <<Reply("no_budget", <<>>)>>)
        ELSE Outcome(db,
               <<Reply("balance", <<db.budgets[i].budget, SumAmounts(matched),
                                    db.budgets[i].budget - SumAmounts(matched)>>)>>)

\* /balance
balance(db, user, now) ==
    LET user_id == user.id
        month   == get_month_str(now)
        i       == BudgetIndex(db.budgets, user_id, month)
    IN  IF i = 0
        THEN Outcome(db, <<Reply("no_budget", <<>>)>>)
        ELSE
          LET budget_doc    == db.budgets[i]
              range         == get_month_range(month)
              matched       == FindExpenses(db, user_id, range.first_day,
                                            range.last_day)
              \* $group yields no result for an empty match: the total stays 0
              expense_total == IF Len(matched) = 0 THEN 0 ELSE SumAmounts(matched)
          IN  Outcome(db,
                <<Reply("balance", <<budget_doc.budget, expense_total,
                                     budget_doc.budget - expense_total>>)>>)

\* One line of /view: "- {ts}: {amt:.2f} [{name}] ({cat})"
ViewLine(exp) == <<FormatDay(exp.timestamp), exp.amount, exp.name, exp.category>>

\* /view without the return that follows "No expenses found": the listing is
\* sent too.
view_without_return(db, user, args) ==
    IF Len(args) = 0 \/ ~StrptimeOk(args[1])
    THEN Outcome(db, <<Reply("usage_view", <<>>)>>)
    ELSE
      LET month    == args[1]
          range    == get_month_range(month)
          exp_list == FindExpenses(db, user.id, range.first_day, range.last_day)
          listing  == Reply("expenses", <<month,
                                         [i \in 1..Len(exp_list) |-> ViewLine(exp_list[i])],
                                         SumAmounts(exp_list)>>)
      IN  IF Len(exp_list) = 0
          THEN Outcome(db, <<Reply("no_expenses", <<month>>), listing>>)
          ELSE Outcome(db, <<listing>>)

\* /view <YYYY-MM>
view(db, user, args) ==
    IF Len(args) = 0 \/ ~StrptimeOk(args[1])
    THEN Outcome(db, <<Reply("usage_view", <<>>)>>)
    ELSE
      LET month    == args[1]
          user_id  == user.id
          range    == get_month_range(month)
          exp_list == FindExpenses(db, user_id, range.first_day, range.last_day)
      IN  IF Len(exp_list) = 0
          THEN Outcome(db, <<Reply("no_expenses", <<month>>)>>)
          ELSE Outcome(db,
                 <<Reply("expenses", <<month,
                                       [i \in 1..Len(exp_list) |-> ViewLine(exp_list[i])],
                                       SumAmounts(exp_list)>>)>>)

\* df.drop(columns=["_id"]): one CSV row per document, without its _id.
CsvRow(doc) == [f \in (DOMAIN doc) \ {"_id"} |-> doc[f]]

\* f"expenses_{user_id}_{month}.csv"
CsvName(user_id, month) == <<"expenses", user_id, month, "csv">>

\* The working directory, as the set of the names of its CSV files, after
\* df.to_csv(filename): a file of that name is created or overwritten.
WriteFile(files, name) == files \cup {name}

\* os.remove(filename)
RemoveFile(files, name) == files \ {name}

\* /export <YYYY-MM>; files is the working directory, sendOk whether
\* reply_document returns (TRUE) or raises (FALSE).  raised: the handler ended
\* by the propagated exception.
export(db, user, args, files, sendOk) ==
    IF Len(args) = 0 \/ ~StrptimeOk(args[1])
    THEN [db |-> db, replies |-> <<Reply("usage_export", <<>>)>>,
          files |-> files, raised |-> FALSE]
    ELSE
      LET month    == args[1]
          user_id  == user.id
          range    == get_month_range(month)
          exp_list == FindExpenses(db, user_id, range.first_day, range.last_day)
      IN  IF Len(exp_list) = 0
          THEN [db |-> db, replies |-> <<Reply("no_export", <<month>>)>>,
                files |-> files, raised |-> FALSE]
          ELSE
            LET filename == CsvName(user_id, month)
                rows     == [i \in 1..Len(exp_list) |-> CsvRow(exp_list[i])]
                written  == WriteFile(files, filename)
                document == Reply("document", <<filename, rows>>)
            IN  IF sendOk
                THEN [db |-> db, replies |-> <<document>>,
                      files |-> RemoveFile(written, filename), raised |-> FALSE]
                ELSE [db |-> db, replies |-> <<document>>,
                      files |-> written, raised |-> TRUE]

\* /help
help(db, user) == Outcome(db, <<Reply("help", <<>>)>>)

\* any other command
unknown_command(db, user) == Outcome(db, <<Reply("not_found", <<>>)>>)

(* ------------------------------ inputs ---------------------------------- *)

\* context.args of /setbudget: none, not a number, 50, 7.5 (with a second
\* argument, which the handler never reads).
BudgetArgs ==
    { <<>>,
      << <<"a", "b">> >>,
      << <<"5", "0">> >>,
      << <<"7", ".", "5">>, <<"x">> >> }

\* The message text after "/add": nothing, no comma, one comma, an amount
\* that is no number, and " 2.5, a ,b,c" (the category keeps the third comma).
AddTexts ==
    { <<>>,
      <<" ", "5">>,
      <<" ", "5", ",", "a">>,
      <<" ", "x", ",", "a", ",", "b">>,
      <<" ", "2", ".", "5", ",", " ", "a", " ", ",", "b", ",", "c">> }

\* context.args of /view and /export: none, "2024-02", "2024-03", "2024-2",
\* "2024-13".
MonthArgs ==
    { <<>>,
      << <<"2", "0", "2", "4", "-", "0", "2">> >>,
      << <<"2", "0", "2", "4", "-", "0", "3">> >>,
      << <<"2", "0", "2", "4", "-", "2">> >>,
      << <<"2", "0", "2", "4", "-", "1", "3">> >> }

(* ------------------------------ routing ---------------------------------- *)

\* The registration with MessageHandler(filters.COMMAND, unknown_command)
\* added before the command handlers.
HandlersFallbackFirst ==
    << [filter |-> "COMMAND", command |-> "", callback |-> "unknown_command"],
       [filter |-> "CommandHandler", command |-> "start", callback |-> "start"],
       [filter |-> "CommandHandler", command |-> "setbudget", callback |-> "set_budget"],
       [filter |-> "CommandHandler", command |-> "add", callback |-> "add_expense"],
       [filter |-> "CommandHandler", command |-> "balance", callback |-> "balance"],
       [filter |-> "CommandHandler", command |-> "view", callback |-> "view"],
       [filter |-> "CommandHandler", command |-> "export", callback |-> "export"],
       [filter |-> "CommandHandler", command |-> "help", callback |-> "help"] >>

\* The handlers of the application, in the order of app.add_handler; all are
\* in the default group.
Handlers ==
    << [filter |-> "CommandHandler", command |-> "start", callback |-> "start"],
       [filter |-> "CommandHandler", command |-> "setbudget", callback |-> "set_budget"],
       [filter |-> "CommandHandler", command |-> "add", callback |-> "add_expense"],
       [filter |-> "CommandHandler", command |-> "balance", callback |-> "balance"],
       [filter |-> "CommandHandler", command |-> "view", callback |-> "view"],
       [filter |-> "CommandHandler", command |-> "export", callback |-> "export"],
       [filter |-> "CommandHandler", command |-> "help", callback |-> "help"],
       [filter |-> "COMMAND", command |-> "", callback |-> "unknown_command"] >>

\* handler.check_update for a message that starts with the command /token:
\* a CommandHandler takes its own command, filters.COMMAND takes any.
check_update(handler, token) ==
    \/ handler.filter = "COMMAND"
    \/ handler.filter = "CommandHandler" /\ handler.command = token

\* The callbacks the application invokes for /token: within a group the first
\* handler whose check_update succeeds handles the update, the rest are skipped.
Dispatch(token) ==
    LET matching == SelectSeq(Handlers, LAMBDA handler : check_update(handler, token))
    IN  IF Len(matching) = 0 THEN <<>> ELSE <<matching[1].callback>>

\* The command tokens of inbound messages: the seven registered commands and
\* two that are not registered.
CommandTokens ==
    {"start", "setbudget", "add", "balance", "view", "export", "help",
     "stats", "starts"}

\* The pairs <<token, callback>> with /token invoking callback.
RouteTable ==
    UNION { {<<token, Dispatch(token)[i]>> : i \in 1..Len(Dispatch(token))} :
            token \in CommandTokens }

\* /token invokes callback.
Routed(token, callback) == <<token, callback>> \in RouteTable

(* ------------------------------- state ----------------------------------- *)

VARIABLES
    db,      \* the collections users, budgets, expenses
    clock,   \* days elapsed since Epoch
    files,   \* the names of the CSV files in the working directory
    alone    \* per user, the store had only that user's commands been run

vars == <<db, clock, files, alone>>

\* datetime.utcnow()
utcnow == DateAfter(Epoch, clock)

Init ==
    /\ db = EmptyDb
    /\ clock = 0
    /\ files = {}
    /\ alone = [u \in Uids |-> EmptyDb]

\* One handler invocation for `user`, with outcome r on the store and outcome
\* solo on the store of that user's commands alone.  The replies of r go to
\* the transport and are no state of the program.
Handled(user, r, solo) ==
    \E out \in {r} :
        /\ DocCount(out.db) <= MaxDocs
        /\ db' = out.db
        /\ alone' = [alone EXCEPT ![user.id] = solo.db]
        /\ UNCHANGED <<clock, files>>

Start(user) ==
    /\ Routed("start", "start")
    /\ Handled(user, start(db, user), start(alone[user.id], user))

SetBudget(user, args) ==
    /\ Routed("setbudget", "set_budget")
    /\ Handled(user, set_budget(db, user, args, utcnow),
            set_budget(alone[user.id], user, args, utcnow))

AddExpense(user, text) ==
    /\ Routed("add", "add_expense")
    /\ Handled(user, add_expense(db, user, text, utcnow),
            add_expense(alone[user.id], user, text, utcnow))

Balance(user) ==
    /\ Routed("balance", "balance")
    /\ Handled(user, balance(db, user, utcnow), balance(alone[user.id], user, utcnow))

View(user, args) ==
    /\ Routed("view", "view")
    /\ Handled(user, view(db, user, args), view(alone[user.id], user, args))

Export(user, args, sendOk) ==
    \E r \in {export(db, user, args, files, sendOk)},
       solo \in {export(alone[user.id], user, args, files, sendOk)} :
        /\ Routed("export", "export")
        /\ Cardinality(r.files) <= MaxLeakedFiles
        /\ db' = r.db
        /\ alone' = [alone EXCEPT ![user.id] = solo.db]
        /\ files' = r.files
        /\ UNCHANGED clock

Help(user) ==
    /\ Routed("help", "help")
    /\ Handled(user, help(db, user), help(alone[user.id], user))

Unknown(user, token) ==
    /\ Routed(token, "unknown_command")
    /\ Handled(user, unknown_command(db, user), unknown_command(alone[user.id], user))

\* A day passes.
Tick ==
    /\ clock < MaxTicks
    /\ clock' = clock + 1
    /\ UNCHANGED <<db, files, alone>>

Next ==
    \/ \E user \in EffectiveUsers : Start(user)
    \/ \E user \in EffectiveUsers, args \in BudgetArgs : SetBudget(user, args)
    \/ \E user \in EffectiveUsers, text \in AddTexts : AddExpense(user, text)
    \/ \E user \in EffectiveUsers : Balance(user)
    \/ \E user \in EffectiveUsers, args \in MonthArgs : View(user, args)
    \/ \E user \in EffectiveUsers, args \in MonthArgs, sendOk \in BOOLEAN :
          Export(user, args, sendOk)
    \/ \E user \in EffectiveUsers : Help(user)
    \/ \E user \in EffectiveUsers, token \in CommandTokens : Unknown(user, token)
    \/ Tick

Spec == Init /\ [][Next]_vars

(* ------------------------- reference notions ----------------------------- *)

\* The expenses of user_id whose timestamp lies in calendar month (y, m): from
\* the first instant of the month to the first instant of the next.
ExpensesOfMonth(user_id, y, m) ==
    SelectSeq(db.expenses,
              LAMBDA doc : doc.uid = user_id /\ doc.timestamp.y = y /\ doc.timestamp.m = m)

ExpensesOf(user_id) == SelectSeq(db.expenses, LAMBDA doc : doc.uid = user_id)

BudgetsOf(user_id) == SelectSeq(db.budgets, LAMBDA doc : doc.uid = user_id)

UserDocsOf(user_id) == SelectSeq(db.users, LAMBDA doc : doc.uid = user_id)

BudgetsFor(coll, user_id, month) ==
    SelectSeq(coll, LAMBDA doc : doc.uid = user_id /\ doc.month = month)

\* The arguments /view and /export accept, with the calendar month they name.
ValidMonthArgs == {args \in MonthArgs : Len(args) > 0 /\ StrptimeOk(args[1])}

YearOfArg(args) == DecVal(SubSeq(args[1], 1, 4))

MonthOfArg(args) == DecVal(SubSeq(args[1], 6, Len(args[1])))

ViewLines(docs) == [i \in 1..Len(docs) |-> ViewLine(docs[i])]

CsvRows(docs) == [i \in 1..Len(docs) |-> CsvRow(docs[i])]

(* ------------------------------- claims ---------------------------------- *)

\* C1: whenever user U has a Budget B for the current month, /balance by U
\* reports Spent = the sum of U's expenses timestamped anywhere in the current
\* calendar month (the last day included) and Balance = B - Spent.
C1_BalanceSumsWholeMonth ==
    \A user \in EffectiveUsers :
        LET i     == BudgetIndex(db.budgets, user.id, get_month_str(utcnow))
            B     == db.budgets[i].budget
            Spent == SumAmounts(ExpensesOfMonth(user.id, utcnow.y, utcnow.m))
        IN  i # 0 =>
              balance(db, user, utcnow).replies
                = <<Reply("balance", <<B, Spent, B - Spent>>)>>

\* C2: for every user U and valid month label M, /view M renders and /export M
\* writes exactly U's expenses of calendar month M, one line or row each.
C2_ViewExportWholeMonth ==
    \A user \in EffectiveUsers, args \in ValidMonthArgs :
        LET wanted == ExpensesOfMonth(user.id, YearOfArg(args), MonthOfArg(args))
            shown  == view(db, user, args).replies[1]
            sent   == export(db, user, args, files, TRUE).replies[1]
        IN  Len(wanted) > 0 =>
              /\ shown.kind = "expenses"
              /\ shown.data[2] = ViewLines(wanted)
              /\ sent.kind = "document"
              /\ sent.data[2] = CsvRows(wanted)

\* The amounts /setbudget accepts among the arguments of the model.
ValidBudgetArgs == {args \in BudgetArgs : Len(args) > 0 /\ ParseFloat(args[1]).ok}

\* C3: there is at most one Budget per (user id, month label), and a
\* /setbudget A by U leaves exactly one Budget for (U, current month), whose
\* amount is A.
C3_OneBudgetPerUserMonth ==
    /\ \A i, j \in 1..Len(db.budgets) :
          (db.budgets[i].uid = db.budgets[j].uid
             /\ db.budgets[i].month = db.budgets[j].month) => i = j
    /\ \A user \in EffectiveUsers, args \in ValidBudgetArgs :
          LET after == set_budget(db, user, args, utcnow).db.budgets
              mine  == BudgetsFor(after, user.id, get_month_str(utcnow))
          IN  /\ Len(mine) = 1
              /\ mine[1].budget = ParseFloat(args[1]).val

\* C3, reached: a user holds a Budget for the current month and a /setbudget
\* with another amount replaces it.
C3_Witness ==
    \E user \in EffectiveUsers, args \in ValidBudgetArgs :
        LET month == get_month_str(utcnow)
            i     == BudgetIndex(db.budgets, user.id, month)
            after == set_budget(db, user, args, utcnow).db.budgets
        IN  /\ i # 0
            /\ db.budgets[i].budget # ParseFloat(args[1]).val
            /\ Len(after) = Len(db.budgets)
            /\ after[i].budget = ParseFloat(args[1]).val

\* The Budget of user_id written last: none of the user's is more recent.
IsLatestBudget(doc, user_id) ==
    /\ doc.uid = user_id
    /\ \A i \in 1..Len(db.budgets) :
          db.budgets[i].uid = user_id => DateLE(db.budgets[i].created_at, doc.created_at)

\* C4: for every user with a Budget, the budget snapshot of the User record is
\* the most recently written Budget of that user.
C4_SnapshotMirrorsLatestBudget ==
    \A uid \in Uids :
        \A i \in 1..Len(db.users), j \in 1..Len(db.budgets) :
            (db.users[i].uid = uid /\ IsLatestBudget(db.budgets[j], uid))
              => db.users[i].budget = db.budgets[j]

\* The summary /add pushes for an Expense document.
SummaryOf(doc) ==
    [amount |-> doc.amount, name |-> doc.name, category |-> doc.category,
     timestamp |-> doc.timestamp]

Summaries(docs) == [i \in 1..Len(docs) |-> SummaryOf(docs[i])]

\* C5: the expense sequence of every User record holds exactly one summary per
\* Expense of that user in the Expense Log, in the order they were added.
C5_UserExpensesMirrorLog ==
    \A i \in 1..Len(db.users) :
        db.users[i].expenses = Summaries(ExpensesOf(db.users[i].uid))

\* C6: once any command of user U has been handled, a User record with uid U
\* exists.
C6_UserExistsAfterAnyCommand ==
    \A user \in EffectiveUsers :
        /\ UserIndex(start(db, user).db.users, user.id) # 0
        /\ UserIndex(help(db, user).db.users, user.id) # 0
        /\ UserIndex(unknown_command(db, user).db.users, user.id) # 0
        /\ UserIndex(balance(db, user, utcnow).db.users, user.id) # 0
        /\ \A args \in BudgetArgs :
              UserIndex(set_budget(db, user, args, utcnow).db.users, user.id) # 0
        /\ \A text \in AddTexts :
              UserIndex(add_expense(db, user, text, utcnow).db.users, user.id) # 0
        /\ \A args \in MonthArgs :
              /\ UserIndex(view(db, user, args).db.users, user.id) # 0
              /\ UserIndex(export(db, user, args, files, TRUE).db.users, user.id) # 0

RECURSIVE CountOf(_, _)
CountOf(s, c) ==
    IF Len(s) = 0 THEN 0
    ELSE (IF s[1] = c THEN 1 ELSE 0) + CountOf(Tail(s), c)

\* A decimal number: blanks around it, one optional sign, then digits with at
\* most one point and at least one digit.
LooksNumeric(s) ==
    LET t    == Strip(s)
        body == IF Len(t) > 0 /\ t[1] \in {"+", "-"} THEN Tail(t) ELSE t
    IN  /\ \A i \in 1..Len(body) : IsDigit(body[i]) \/ body[i] = "."
        /\ CountOf(body, ".") <= 1
        /\ \E i \in 1..Len(body) : IsDigit(body[i])

\* /setbudget arguments that are missing or no number.
BadBudgetArgs == {args \in BudgetArgs : Len(args) = 0 \/ ~LooksNumeric(args[1])}

\* /add texts with fewer than two commas or an amount that is no number.
BadAddTexts ==
    {text \in AddTexts :
        \/ CountOf(text, ",") < 2
        \/ ~LooksNumeric(SubSeq(text, 1, IndexOf(text, ",") - 1))}

\* C7: /setbudget with a missing or non-numeric argument, and /add with fewer
\* than two commas or a non-numeric amount, reply with the usage hint and
\* leave the three collections as they were.
C7_BadInputWritesNothing ==
    \A user \in EffectiveUsers :
        /\ \A args \in BadBudgetArgs :
              set_budget(db, user, args, utcnow)
                = Outcome(db, <<Reply("usage_setbudget", <<>>)>>)
        /\ \A text \in BadAddTexts :
              add_expense(db, user, text, utcnow)
                = Outcome(db, <<Reply("usage_add", <<>>)>>)

\* C7, reached: the three collections hold documents, there are bad inputs of
\* both commands, and each handler answers one with its usage hint.
C7_Witness ==
    /\ Len(db.users) > 0 /\ Len(db.budgets) > 0 /\ Len(db.expenses) > 0
    /\ \E user \in EffectiveUsers, args \in BadBudgetArgs, text \in BadAddTexts :
          /\ Len(args) > 0
          /\ CountOf(text, ",") >= 2
          /\ set_budget(db, user, args, utcnow).replies[1].kind = "usage_setbudget"
          /\ add_expense(db, user, text, utcnow).replies[1].kind = "usage_add"

\* C8: no /export ends with its CSV file still in the working directory.
C8_NoCsvFileLeft == files = {}

\* C9: every handler invocation sends exactly one reply, on every branch.
C9_ExactlyOneReply ==
    \A user \in EffectiveUsers :
        /\ Len(start(db, user).replies) = 1
        /\ Len(help(db, user).replies) = 1
        /\ Len(unknown_command(db, user).replies) = 1
        /\ Len(balance(db, user, utcnow).replies) = 1
        /\ \A args \in BudgetArgs : Len(set_budget(db, user, args, utcnow).replies) = 1
        /\ \A text \in AddTexts : Len(add_expense(db, user, text, utcnow).replies) = 1
        /\ \A args \in MonthArgs :
              /\ Len(view(db, user, args).replies) = 1
              /\ \A sendOk \in BOOLEAN :
                    Len(export(db, user, args, files, sendOk).replies) = 1

\* C9, reached: in one state /balance answers a user with figures and another
\* with "no budget", /view lists for one month and finds nothing for another,
\* and /export sends a document.
C9_Witness ==
    \E u, v \in EffectiveUsers, a, b \in ValidMonthArgs :
        /\ balance(db, u, utcnow).replies[1].kind = "balance"
        /\ balance(db, v, utcnow).replies[1].kind = "no_budget"
        /\ view(db, u, a).replies[1].kind = "expenses"
        /\ view(db, u, b).replies[1].kind = "no_expenses"
        /\ export(db, u, a, files, TRUE).replies[1].kind = "document"

\* The records of user_id in a store; the store's own _id is left out.
RecordsOf(store, user_id) ==
    [users    |-> SelectSeq(store.users, LAMBDA doc : doc.uid = user_id),
     budgets  |-> SelectSeq(store.budgets, LAMBDA doc : doc.uid = user_id),
     expenses |-> CsvRows(SelectSeq(store.expenses, LAMBDA doc : doc.uid = user_id))]

\* Every reply a command of `user` would get now is the one it would get had
\* only that user's commands been run.
SameRepliesAlone(user) ==
    LET mine == alone[user.id] IN
    /\ start(db, user).replies = start(mine, user).replies
    /\ balance(db, user, utcnow).replies = balance(mine, user, utcnow).replies
    /\ \A args \in BudgetArgs :
          set_budget(db, user, args, utcnow).replies
            = set_budget(mine, user, args, utcnow).replies
    /\ \A text \in AddTexts :
          add_expense(db, user, text, utcnow).replies
            = add_expense(mine, user, text, utcnow).replies
    /\ \A args \in MonthArgs :
          /\ view(db, user, args).replies = view(mine, user, args).replies
          /\ export(db, user, args, files, TRUE).replies
               = export(mine, user, args, files, TRUE).replies

NoContention ==
    \A user \in EffectiveUsers :
        /\ RecordsOf(db, user.id) = RecordsOf(alone[user.id], user.id)
        /\ SameRepliesAlone(user)

\* A step that is no writing command of user_id leaves the records of user_id
\* as they are.
OthersLeaveRecords ==
    \A uid \in Uids :
        alone'[uid] = alone[uid] => (db' = db \/ RecordsOf(db', uid) = RecordsOf(db, uid))

\* C10: commands of different users never contend: a command of V leaves the
\* records of U unchanged, and the records of U and the replies to U are those
\* of U's commands run alone in the same order.
C10_UsersNeverContend == [] NoContention /\ [][OthersLeaveRecords]_vars

\* C10, reached: two users hold Budgets of different amounts for the same
\* month, and an Expense of one of them is in the log.
C10_Witness ==
    \E u, v \in Uids :
        LET month == get_month_str(utcnow)
            i     == BudgetIndex(db.budgets, u, month)
            j     == BudgetIndex(db.budgets, v, month)
        IN  /\ u # v
            /\ i # 0 /\ j # 0
            /\ db.budgets[i].budget # db.budgets[j].budget
            /\ Len(ExpensesOf(v)) > 0

\* The Expense Log after a step holds every Expense it held before, unchanged
\* and in place.
ExpensesKept ==
    /\ Len(db'.expenses) >= Len(db.expenses)
    /\ SubSeq(db'.expenses, 1, Len(db.expenses)) = db.expenses

\* No command but /setbudget and /add changes Budgets or Expenses, and
\* /setbudget does not change Expenses.
ReadersWriteNothing ==
    \A user \in EffectiveUsers :
        /\ start(db, user).db.budgets = db.budgets
        /\ start(db, user).db.expenses = db.expenses
        /\ balance(db, user, utcnow).db = db
        /\ help(db, user).db = db
        /\ unknown_command(db, user).db = db
        /\ \A args \in MonthArgs :
              /\ view(db, user, args).db = db
              /\ \A sendOk \in BOOLEAN : export(db, user, args, files, sendOk).db = db
        /\ \A args \in BudgetArgs :
              set_budget(db, user, args, utcnow).db.expenses = db.expenses

\* C11: an Expense, once created by /add, stays in the Expense Log unchanged
\* in every later state; /balance, /view, /export, /help, /start and unknown
\* commands leave Budgets and Expenses unchanged, /setbudget leaves Expenses
\* unchanged.
C11_ExpensesImmutable == [] ReadersWriteNothing /\ [][ExpensesKept]_vars

\* C11, reached: an Expense of an earlier day is in the log next to a later
\* Expense and a Budget.
C11_Witness ==
    /\ Len(db.expenses) >= 2
    /\ db.expenses[1].timestamp # utcnow
    /\ db.expenses[2].timestamp = utcnow
    /\ Len(db.budgets) > 0

\* The Budget records of a user whose label names the calendar month of now.
CurrentMonthBudgets(user_id) ==
    SelectSeq(db.budgets,
              LAMBDA doc : /\ doc.uid = user_id
                           /\ Len(doc.month) = 7
                           /\ DecVal(SubSeq(doc.month, 1, 4)) = utcnow.y
                           /\ doc.month[5] = "-"
                           /\ DecVal(SubSeq(doc.month, 6, 7)) = utcnow.m)

\* C12: /balance by U gives the no-budget reply, with no figures, exactly when
\* no Budget record exists for (U, current month); otherwise it reports a
\* balance.  Budgets of earlier months, Budgets of other users and Expenses of
\* U make no difference.
C12_NoBudgetReplyIffNoBudget ==
    \A user \in EffectiveUsers :
        LET r == balance(db, user, utcnow).replies
        IN  /\ Len(r) = 1
            /\ r[1].kind \in {"no_budget", "balance"}
            /\ r[1].kind = "no_budget" <=> Len(CurrentMonthBudgets(user.id)) = 0
            /\ r[1].kind = "no_budget" => r[1].data = <<>>

\* C12, reached: after the month changed, U holds a Budget of the earlier
\* month and an Expense, another user holds a Budget of the current month, and
\* /balance by U gives the no-budget reply.
C12_Witness ==
    \E user \in EffectiveUsers, other \in EffectiveUsers :
        /\ other.id # user.id
        /\ Len(BudgetsOf(user.id)) > 0
        /\ Len(ExpensesOf(user.id)) > 0
        /\ Len(CurrentMonthBudgets(user.id)) = 0
        /\ Len(CurrentMonthBudgets(other.id)) > 0
        /\ balance(db, user, utcnow).replies[1].kind = "no_budget"

\* A month label of the exact form YYYY-MM: four digits, a dash, a two-digit
\* month 01 to 12.
ExactMonthLabel(args) ==
    /\ Len(args) > 0
    /\ Len(args[1]) = 7
    /\ AllDigits(SubSeq(args[1], 1, 4))
    /\ args[1][5] = "-"
    /\ AllDigits(SubSeq(args[1], 6, 7))
    /\ DecVal(SubSeq(args[1], 6, 7)) \in 1..12

\* C13: /view and /export reply with the usage hint, and read nothing from the
\* store, exactly when the argument is missing or is not a month label of the
\* exact form YYYY-MM with a two-digit month 01 to 12.
C13_UsageHintUnlessExactLabel ==
    \A user \in EffectiveUsers, args \in MonthArgs :
        /\ view(db, user, args).replies[1].kind = "usage_view"
              <=> ~ExactMonthLabel(args)
        /\ \A sendOk \in BOOLEAN :
              export(db, user, args, files, sendOk).replies[1].kind = "usage_export"
                  <=> ~ExactMonthLabel(args)

\* The callback registered for a command, the fallback for any other token.
OwnCallback(token) ==
    CASE token = "start"     -> "start"
      [] token = "setbudget" -> "set_budget"
      [] token = "add"       -> "add_expense"
      [] token = "balance"   -> "balance"
      [] token = "view"      -> "view"
      [] token = "export"    -> "export"
      [] token = "help"      -> "help"
      [] OTHER               -> "unknown_command"

\* C14: every inbound command token invokes exactly one handler: a recognized
\* command its own handler and not the fallback, any other token the fallback
\* alone.
C14_ExactlyOneHandler ==
    \A token \in CommandTokens, user \in EffectiveUsers :
        /\ Len(Dispatch(token)) = 1
        /\ Dispatch(token)[1] = OwnCallback(token)
        /\ \A callback \in {Handlers[i].callback : i \in 1..Len(Handlers)} :
              Routed(token, callback) <=> callback = OwnCallback(token)
        /\ Routed(token, "unknown_command") =>
              unknown_command(db, user).replies = <<Reply("not_found", <<>>)>>

\* C14, reached: /start was routed to start and has registered a user, while
\* an unregistered token goes to the fallback alone.
C14_Witness ==
    /\ Len(db.users) > 0
    /\ Dispatch("start") = <<"start">>
    /\ \E token \in CommandTokens :
          /\ OwnCallback(token) = "unknown_command"
          /\ Dispatch(token) = <<"unknown_command">>

\* C15: there is at most one User record per user id, and /start by a user
\* who has a User record inserts nothing and leaves the record, with its budget
\* snapshot and expense sequence, as it is.
C15_StartIsIdempotent ==
    \A user \in EffectiveUsers :
        /\ Len(UserDocsOf(user.id)) <= 1
        /\ Len(UserDocsOf(user.id)) = 1 =>
              /\ start(db, user).db = db
              /\ start(db, user).replies[1].kind = "welcome_back"

\* C15, reached: a registered user whose record holds a budget snapshot and an
\* expense sends /start again, and the record stays.
C15_Witness ==
    \E user \in EffectiveUsers :
        /\ Len(UserDocsOf(user.id)) = 1
        /\ UserDocsOf(user.id)[1].budget # EmptyDoc
        /\ Len(UserDocsOf(user.id)[1].expenses) > 0
        /\ start(db, user).db.users = db.users

\* The reply of /balance by user now, and of /view by user for the label of
\* the current month.
BalanceNow(user) == balance(db, user, utcnow).replies[1]

ViewNow(user) == view(db, user, <<get_month_str(utcnow)>>).replies[1]

\* C16: whenever a Budget exists for (U, current month) and /view selects at
\* least one Expense of U for the current month label, the Spent figure of
\* /balance equals the Total of /view.
C16_SpentEqualsViewTotal ==
    \A user \in EffectiveUsers :
        (BalanceNow(user).kind = "balance" /\ ViewNow(user).kind = "expenses")
            => BalanceNow(user).data[2] = ViewNow(user).data[3]

\* C16, reached: U has a Budget for the current month and two Expenses that
\* both reports select.
C16_Witness ==
    \E user \in EffectiveUsers :
        /\ BalanceNow(user).kind = "balance"
        /\ ViewNow(user).kind = "expenses"
        /\ Len(ViewNow(user).data[2]) = 2
        /\ BalanceNow(user).data[2] > 0

====
